---- MODULE Spec2Model ----
(***************************************************************************)
(* The media-submission pipeline of TruthVisionAi's frontend: the App      *)
(* component's five state fields, its three handlers, the continuation of  *)
(* the awaited axios call, and the controls that App, Upload and Result    *)
(* render.                                                                 *)
(*                                                                         *)
(* A JavaScript value that may be null/undefined is a sequence of length   *)
(* at most one: Null is <<>>, and Some(x) is <<x>>.                        *)
(***************************************************************************)
EXTENDS Integers, Sequences, FiniteSets, TLC

\* ------------------------------------------------------------------ bounds
MaxCalls == 2   \* axios.post calls made in one behaviour
MaxUrls == 2    \* URL.createObjectURL calls made in one behaviour

\* --------------------------------------------------------------- JS values
Null == <<>>
Some(x) == <<x>>
\* JS truthiness, as used by `if (x)`, `x && ...` and `a || b`:
\* of an object or a blob URL (truthy unless null), and of a string
Truthy(v) == v # Null
TruthyStr(v) == v # Null /\ v[1] # ""

\* ---------------------------------------------------------- the size limits
\* "Max image: 5MB, max video: 100MB" is the only place the limits appear
MaxImageBytes == 5242880
MaxVideoBytes == 104857600

\* Files the user can hand to the dropzone: MIME type and size in bytes
Candidates ==
    {[type |-> "image/jpeg", size |-> 2097152],
     [type |-> "image/png", size |-> MaxImageBytes],
     [type |-> "image/jpeg", size |-> MaxImageBytes + 1],
     [type |-> "video/mp4", size |-> 20971520],
     [type |-> "video/mp4", size |-> MaxVideoBytes + 1],
     [type |-> "application/pdf", size |-> 1048576]}

IsImage(f) == f.type \in {"image/jpeg", "image/png", "image/webp"}
IsVideo(f) == f.type \in {"video/mp4", "video/webm", "video/quicktime", "video/x-matroska"}

\* useDropzone({accept: {'image/*': ..., 'video/*': ...}, multiple: false}):
\* the files of one drop that reach onDrop as acceptedFiles. No maxSize is set.
acceptedFiles(dropped) ==
    IF Len(dropped) = 1 /\ (IsImage(dropped[1]) \/ IsVideo(dropped[1]))
    THEN dropped ELSE <<>>

OverLimit(f) ==
    \/ IsImage(f) /\ f.size > MaxImageBytes
    \/ IsVideo(f) /\ f.size > MaxVideoBytes

\* ------------------------------------------------ what the service answers
\* A 2xx body. confidence is in units of 1e-5, so 97000 is 0.97.
Body(label, confidence, is_ai, input_type) ==
    [label |-> label, confidence |-> confidence, is_ai |-> is_ai,
     input_type |-> input_type, ai_probability |-> Null, real_probability |-> Null]

Bodies ==
    {Body(Some("AI-Generated"), Some(97000), Some(TRUE), Some("image")),
     Body(Some("Real"), Some(99900), Some(FALSE), Some("video")),
     Body(Some("AI-Generated"), Null, Some(TRUE), Some("image")),
     Body(Null, Some(97000), Some(TRUE), Some("image")),
     Body(Some("Real"), Some(80000), Null, Some("image")),
     Body(Some("Real"), Some(80000), Some(FALSE), Null)}

\* the minimal AnalysisResult contract of the service
RequiredFields == {"label", "confidence", "is_ai", "input_type"}
ValidShape(data) == \A k \in RequiredFields : data[k] # Null

\* What axios.post rejects with: err.response?.data?.detail and err.message
Errors ==
    [detail : {Null, Some(""), Some("model unavailable")},
     message : {Some(""), Some("Network Error"), Some("Request failed with status code 500")}]

VARIABLES
    file,      \* useState(null): the selected File
    preview,   \* useState(null): the object URL of the preview
    result,    \* useState(null): response.data of the last success
    loading,   \* useState(false)
    error,     \* useState(null): the error message
    inFlight,  \* the axios.post promises not settled yet, with the file each carries
    calls,     \* number of axios.post calls made
    urls,      \* number of URL.createObjectURL calls made
    superseded, \* ids of the calls that were in flight when handleReset or handleFileSelect ran
    last       \* the last handler or continuation that ran: its argument, and what it
               \* reported to its caller (returned error or exception)

vars == <<file, preview, result, loading, error, inFlight, calls, urls, superseded, last>>

\* No handler returns a value or throws: handleAnalyze is async and catches
\* everything, so its promise always fulfils with undefined.
Ran(op, arg) == [op |-> op, arg |-> arg, reported |-> "nothing"]

InFlightIds == {req.id : req \in inFlight}

Init ==
    /\ file = Null
    /\ preview = Null
    /\ result = Null
    /\ loading = FALSE
    /\ error = Null
    /\ inFlight = {}
    /\ calls = 0
    /\ urls = 0
    /\ superseded = {}
    /\ last = Ran("mount", Null)

\* --------------------------------------------------------------- handlers
handleFileSelect(selectedFile) ==
    /\ urls < MaxUrls
    /\ file' = Some(selectedFile)
    /\ error' = Null
    /\ urls' = urls + 1
    /\ preview' = Some(urls + 1)
    /\ superseded' = superseded \cup InFlightIds
    /\ last' = Ran("handleFileSelect", selectedFile)
    /\ UNCHANGED <<result, loading, inFlight, calls>>

onDrop(accepted) ==
    IF Len(accepted) > 0
    THEN handleFileSelect(accepted[1])
    ELSE /\ last' = Ran("onDrop", accepted)
         /\ UNCHANGED <<file, preview, result, loading, error, inFlight, calls, urls, superseded>>

\* handleAnalyze without `setError(null)`
handleAnalyze_KeepError ==
    IF ~Truthy(file)
    THEN /\ last' = Ran("handleAnalyze", file)
         /\ UNCHANGED <<file, preview, result, loading, error, inFlight, calls, urls, superseded>>
    ELSE /\ calls < MaxCalls
         /\ loading' = TRUE
         /\ result' = Null
         /\ calls' = calls + 1
         /\ inFlight' = inFlight \cup {[id |-> calls + 1, file |-> file[1]]}
         /\ last' = Ran("handleAnalyze", file)
         /\ UNCHANGED <<file, preview, error, urls, superseded>>

\* handleAnalyze without `if (!file) return`
handleAnalyze_NoGuard ==
    /\ calls < MaxCalls
    /\ loading' = TRUE
    /\ error' = Null
    /\ result' = Null
    /\ calls' = calls + 1
    /\ inFlight' = inFlight \cup
           {[id |-> calls + 1,
             file |-> IF Truthy(file) THEN file[1] ELSE [type |-> "image/jpeg", size |-> 0]]}
    /\ last' = Ran("handleAnalyze", file)
    /\ UNCHANGED <<file, preview, urls, superseded>>

handleAnalyze ==
    IF ~Truthy(file)
    THEN /\ last' = Ran("handleAnalyze", file)
         /\ UNCHANGED <<file, preview, result, loading, error, inFlight, calls, urls, superseded>>
    ELSE /\ calls < MaxCalls
         /\ loading' = TRUE
         /\ error' = Null
         /\ result' = Null
         /\ calls' = calls + 1
         /\ inFlight' = inFlight \cup {[id |-> calls + 1, file |-> file[1]]}
         /\ last' = Ran("handleAnalyze", file)
         /\ UNCHANGED <<file, preview, urls, superseded>>

\* err.message || err.response?.data?.detail || 'An unknown error occurred.'
errorMessage_MessageFirst(err) ==
    IF TruthyStr(err.message) THEN err.message[1]
    ELSE IF TruthyStr(err.detail) THEN err.detail[1]
    ELSE "An unknown error occurred."

\* err.response?.data?.detail || err.message || 'An unknown error occurred.'
errorMessage(err) ==
    IF TruthyStr(err.detail) THEN err.detail[1]
    ELSE IF TruthyStr(err.message) THEN err.message[1]
    ELSE "An unknown error occurred."

\* the continuation of `await axios.post(...)` when the promise fulfils
analyzeFulfilled(req, data) ==
    /\ req \in inFlight
    /\ inFlight' = inFlight \ {req}
    /\ result' = Some(data)
    /\ loading' = FALSE
    /\ last' = Ran("fulfilled", [req |-> req, data |-> data])
    /\ UNCHANGED <<file, preview, error, calls, urls, superseded>>

\* the catch block without `setError(errorMessage)`
analyzeRejected_Silent(req, err) ==
    /\ req \in inFlight
    /\ inFlight' = inFlight \ {req}
    /\ loading' = FALSE
    /\ last' = Ran("rejected", [req |-> req, err |-> err])
    /\ UNCHANGED <<file, preview, result, error, calls, urls, superseded>>

\* the catch block also dropping the selection (setFile(null), setPreview(null))
analyzeRejected_ClearsSelection(req, err) ==
    /\ req \in inFlight
    /\ inFlight' = inFlight \ {req}
    /\ error' = Some(errorMessage(err))
    /\ file' = Null
    /\ preview' = Null
    /\ loading' = FALSE
    /\ last' = Ran("rejected", [req |-> req, err |-> err])
    /\ UNCHANGED <<result, calls, urls, superseded>>

\* the catch block posting the same file once more instead of giving up
analyzeRejected_Retry(req, err) ==
    /\ req \in inFlight
    /\ IF calls < MaxCalls
       THEN /\ inFlight' = (inFlight \ {req}) \cup {[id |-> calls + 1, file |-> req.file]}
            /\ calls' = calls + 1
            /\ UNCHANGED <<loading, error>>
       ELSE /\ inFlight' = inFlight \ {req}
            /\ error' = Some(errorMessage(err))
            /\ loading' = FALSE
            /\ UNCHANGED calls
    /\ last' = Ran("rejected", [req |-> req, err |-> err])
    /\ UNCHANGED <<file, preview, result, urls, superseded>>

\* the continuation of `await axios.post(...)` when the promise rejects
analyzeRejected(req, err) ==
    /\ req \in inFlight
    /\ inFlight' = inFlight \ {req}
    /\ error' = Some(errorMessage(err))
    /\ loading' = FALSE
    /\ last' = Ran("rejected", [req |-> req, err |-> err])
    /\ UNCHANGED <<file, preview, result, calls, urls, superseded>>

\* handleReset without `setLoading(false)`
handleReset_KeepLoading ==
    /\ file' = Null
    /\ preview' = Null
    /\ result' = Null
    /\ error' = Null
    /\ superseded' = superseded \cup InFlightIds
    /\ last' = Ran("handleReset", Null)
    /\ UNCHANGED <<loading, inFlight, calls, urls>>

\* handleReset without `setResult(null)`
handleReset_KeepResult ==
    /\ file' = Null
    /\ preview' = Null
    /\ loading' = FALSE
    /\ error' = Null
    /\ superseded' = superseded \cup InFlightIds
    /\ last' = Ran("handleReset", Null)
    /\ UNCHANGED <<result, inFlight, calls, urls>>

handleReset ==
    /\ file' = Null
    /\ preview' = Null
    /\ result' = Null
    /\ loading' = FALSE
    /\ error' = Null
    /\ superseded' = superseded \cup InFlightIds
    /\ last' = Ran("handleReset", Null)
    /\ UNCHANGED <<inFlight, calls, urls>>

\* ------------------------------------------------------ what is rendered
LoadingShown == loading
ResultShown == ~loading /\ Truthy(result)
UploadShown == ~loading /\ ~Truthy(result)
ErrorBannerShown == TruthyStr(error)
DropzoneShown == UploadShown /\ ~Truthy(preview)
\* the Analyze button rendered whenever a file is held, also beside <Loading />
AnalyzeButtonShown_Always == Truthy(file)

AnalyzeButtonShown == UploadShown /\ Truthy(file) /\ ~loading
ResetButtonShown == ResultShown

\* --------------------------------------- the App as the user can drive it
Drop(c) == DropzoneShown /\ onDrop(acceptedFiles(<<c>>))
ClickAnalyze == AnalyzeButtonShown /\ handleAnalyze
ClickReset == ResetButtonShown /\ handleReset
Fulfil == \E req \in inFlight, data \in Bodies : analyzeFulfilled(req, data)
Reject == \E req \in inFlight, err \in Errors : analyzeRejected(req, err)

Next ==
    \/ \E c \in Candidates : Drop(c)
    \/ ClickAnalyze
    \/ ClickReset
    \/ Fulfil
    \/ Reject

Spec == Init /\ [][Next]_vars

\* the analysis client eventually settles every call
FairSpec == Spec /\ WF_vars(Fulfil \/ Reject)

\* ------------------- the handlers invoked directly, whatever is rendered
Select(c) == handleFileSelect(c)
Submit == handleAnalyze
Reset == handleReset

NextHandlers ==
    \/ \E c \in Candidates : Select(c)
    \/ Submit
    \/ Reset
    \/ Fulfil
    \/ Reject

SpecHandlers == Init /\ [][NextHandlers]_vars

TypeOK ==
    /\ file \in {Null} \cup {Some(c) : c \in Candidates}
    /\ preview \in {Null} \cup {Some(u) : u \in 1..MaxUrls}
    /\ result \in {Null} \cup {Some(d) : d \in Bodies}
    /\ loading \in BOOLEAN
    /\ error \in {Null} \cup {Some(errorMessage(e)) : e \in Errors}
    /\ calls \in 0..MaxCalls
    /\ urls \in 0..MaxUrls
    /\ inFlight \subseteq [id : 1..MaxCalls, file : Candidates]
    /\ superseded \subseteq 1..MaxCalls
    /\ last.reported = "nothing"

\* ------------------------------------------------------- preview handles
\* The object URLs passed to URL.revokeObjectURL: no handler, effect or
\* component calls it, so no URL is ever released.
revoked == {}
UnreleasedUrls == (1..urls) \ revoked

\* ------------------------------------------------------------ Result.jsx
\* Numbers are fixed-point in units of 1e-5: One is 1.0, Hundred is 100.0.
One == 100000
Hundred == 100 * One
Times100(x) == x * 100
Div100(x) == x \div 100
\* a ?? b
Coalesce(a, b) == IF a # Null THEN a[1] ELSE b

\* (result.ai_probability || (isAiGenerated ? ... : ...)) * 100
aiProbability_Or(r) ==
    LET isAiGenerated == r.is_ai = Some(TRUE)
        fallback == IF isAiGenerated THEN r.confidence[1] ELSE One - r.confidence[1]
    IN  Times100(IF r.ai_probability # Null /\ r.ai_probability[1] # 0
                 THEN r.ai_probability[1] ELSE fallback)

\* (result.ai_probability ?? (isAiGenerated ? result.confidence : 1 - result.confidence)) * 100
aiProbability(r) ==
    LET isAiGenerated == r.is_ai = Some(TRUE)
    IN  Times100(Coalesce(r.ai_probability,
                          IF isAiGenerated THEN r.confidence[1] ELSE One - r.confidence[1]))

\* (result.real_probability ?? (100 - aiProbability)) * 100
realProbability_NoDiv(r) ==
    Times100(Coalesce(r.real_probability, Hundred - aiProbability(r)))

\* (result.real_probability ?? (100 - aiProbability) / 100) * 100
realProbability(r) ==
    Times100(Coalesce(r.real_probability, Div100(Hundred - aiProbability(r))))

confidenceValue(r) == Times100(r.confidence[1])

\* the cut points of getReliability, in percent
VeryHighAbove == 9990000
SuspiciousFrom == 9000000

\* getReliability with `confidenceValue >= 99.9`
getReliability_Inclusive(r) ==
    IF confidenceValue(r) >= VeryHighAbove THEN "Very High"
    ELSE IF confidenceValue(r) >= SuspiciousFrom THEN "Suspicious"
    ELSE "Low"

getReliability(r) ==
    IF confidenceValue(r) > VeryHighAbove THEN "Very High"
    ELSE IF confidenceValue(r) >= SuspiciousFrom THEN "Suspicious"
    ELSE "Low"

\* what <Result result={r} /> derives and displays
ResultView(r) ==
    [aiProbability |-> aiProbability(r),
     realProbability |-> realProbability(r),
     confidenceValue |-> confidenceValue(r),
     reliability |-> getReliability(r),
     isVideo |-> r.input_type = Some("video")]

\* Well-formed AnalysisResults: every combination of the optional
\* probabilities with confidences on and around the cut points.
Confidences == {0, 50000, 80000, 89999, 90000, 97000, 99900, 99901, 99950, One}
Probabilities == {0, 3000, 50000, 97000}
AnalysisResults ==
    [label : {Some("AI-Generated")},
     confidence : {Some(c) : c \in Confidences},
     is_ai : {Some(TRUE), Some(FALSE)},
     input_type : {Some("image"), Some("video")},
     ai_probability : {Null} \cup {Some(q) : q \in Probabilities},
     real_probability : {Null} \cup {Some(q) : q \in Probabilities}]

\* The state right after a call for the held file fulfilled with a
\* well-formed body, and the rendering of <Result /> from it.
InitResult ==
    /\ file = Some([type |-> "image/jpeg", size |-> 2097152])
    /\ preview = Some(1)
    /\ result \in {Some(r) : r \in AnalysisResults}
    /\ loading = FALSE
    /\ error = Null
    /\ inFlight = {}
    /\ calls = 1
    /\ urls = 1
    /\ superseded = {}
    /\ last = Ran("fulfilled", Null)

RenderResult ==
    /\ ResultShown
    /\ last' = Ran("Result", ResultView(result[1]))
    /\ UNCHANGED <<file, preview, result, loading, error, inFlight, calls, urls, superseded>>

NextResult == RenderResult \/ ClickReset

SpecResult == InitResult /\ [][NextResult]_vars

\* ==================================================================== claims

Idle == ~Truthy(file) /\ ~loading /\ ~Truthy(result) /\ ~Truthy(error)
Failed == Truthy(error) /\ ~loading
Settled(req) == req \in inFlight /\ req \notin inFlight'

C2_OneCallOutstanding == Cardinality(inFlight) <= 1

C2_Witness == Cardinality(inFlight) = 1 /\ calls = 2 /\ loading

\* C3: the loading indicator is shown iff a call is in flight, the result view
\* iff a result is held and no call is in flight, the error banner iff an
\* error is held; no two of loading, held result and held error coexist.
C3_PanelsTrackState ==
    /\ LoadingShown <=> inFlight # {}
    /\ ResultShown <=> (result # Null /\ inFlight = {})
    /\ ErrorBannerShown <=> error # Null
    /\ ~(loading /\ result # Null)
    /\ ~(loading /\ error # Null)
    /\ ~(result # Null /\ error # Null)

C3_Witness == ErrorBannerShown /\ ~LoadingShown /\ ~ResultShown /\ calls = 2

\* C4: when the client settles every call, a state with a submission in
\* flight leads to a state where loading is false and the settlement set
\* exactly one of result (fulfilled) and error (rejected).
C4_SettlesOnce ==
    loading ~> /\ ~loading
               /\ last.op \in {"fulfilled", "rejected"}
               /\ (last.op = "fulfilled" => result # Null /\ error = Null)
               /\ (last.op = "rejected" => error # Null /\ result = Null)

C4_Witness == ~loading /\ last.op = "rejected" /\ error # Null /\ result = Null

\* C5: right after handleReset, in whatever state it was invoked, file,
\* preview, result and error are null and loading is false.
C5_ResetIsInitial ==
    last.op = "handleReset" =>
        file = Null /\ preview = Null /\ result = Null /\ error = Null /\ loading = FALSE

C5_Witness == last.op = "handleReset" /\ inFlight # {} /\ urls > 0

\* C6: in the Failed state both the reset control and the Analyze (retry)
\* control are offered to the user.
C6_FailedOffersResetAndRetry == Failed => (ResetButtonShown /\ AnalyzeButtonShown)

\* C7: after a rejected call the stored error is the server's detail if it is
\* a non-empty string, else the transport message if non-empty, else the
\* generic fallback; detail "model unavailable" is stored exactly.
C7_ErrorPreference ==
    last.op = "rejected" =>
        LET detail == last.arg.err.detail
            message == last.arg.err.message
            noDetail == detail \in {Null, <<"">>}
            noMessage == message \in {Null, <<"">>}
        IN  /\ ~noDetail => error = detail
            /\ (noDetail /\ ~noMessage) => error = message
            /\ (noDetail /\ noMessage) => error = <<"An unknown error occurred.">>
            /\ detail = <<"model unavailable">> => error = <<"model unavailable">>

C7_Witness ==
    /\ last.op = "rejected"
    /\ last.arg.err.message = <<"Request failed with status code 500">>
    /\ error = <<"model unavailable">>

\* C8: after a 2xx response that lacks a required field the controller is
\* Failed: an error is held, no result is stored and no result view is shown.
C8_InvalidShapeFails ==
    (last.op = "fulfilled" /\ ~ValidShape(last.arg.data)) =>
        (result = Null /\ error # Null /\ ~ResultShown)

C10_SizeBoundEnforced ==
    /\ [](file # Null => ~OverLimit(file[1]))
    /\ [][(last'.op = "handleFileSelect" /\ OverLimit(last'.arg)) =>
            /\ UNCHANGED <<file, preview, result, error>>
            /\ last'.reported = "FileTooLarge"]_vars

\* C11: at most one created preview URL is unreleased in any reachable
\* state, and none is unreleased in Idle.
C11_PreviewHandlesPaired ==
    /\ Cardinality(UnreleasedUrls) <= 1
    /\ (Idle => UnreleasedUrls = {})

\* the two percentages sum to 100 within the tolerance 1e-6 x 100 (10 units)
SumsTo100(view) ==
    LET sum == view.aiProbability + view.realProbability
    IN  sum - Hundred <= 10 /\ Hundred - sum <= 10

\* C12 as stated: whenever ai_probability is absent, whatever
\* real_probability holds, aiProbability + realProbability is 100.
C12_SumIs100 ==
    (last.op = "Result" /\ result[1].ai_probability = Null) => SumsTo100(last.arg)

\* C12 as amended: whenever ai_probability and real_probability are both
\* absent, aiProbability + realProbability is 100.
C12_SumIs100WhenBothAbsent ==
    (last.op = "Result" /\ result[1].ai_probability = Null /\ result[1].real_probability = Null)
        => SumsTo100(last.arg)

C12_Witness ==
    /\ last.op = "Result"
    /\ result[1].ai_probability = Null /\ result[1].real_probability = Null
    /\ result[1].is_ai = Some(FALSE)
    /\ last.arg.aiProbability = 300000 /\ last.arg.realProbability = 9700000

\* C13: the tier is Very High strictly above 99.9 percent, Suspicious from 90
\* to 99.9 inclusive, Low strictly below 90: 99.95 is Very High, 99.9 and
\* 90.0 are Suspicious, 89.999 is Low.
C13_ReliabilitySteps ==
    last.op = "Result" =>
        LET pct == last.arg.confidenceValue
            tier == last.arg.reliability
        IN  /\ tier \in {"Very High", "Suspicious", "Low"}
            /\ tier = "Very High" <=> pct > 9990000
            /\ tier = "Suspicious" <=> (pct >= 9000000 /\ pct <= 9990000)
            /\ tier = "Low" <=> pct < 9000000
            /\ pct = 9995000 => tier = "Very High"
            /\ pct = 9990000 => tier = "Suspicious"
            /\ pct = 9000000 => tier = "Suspicious"
            /\ pct = 8999900 => tier = "Low"

C13_Witness ==
    last.op = "Result" /\ last.arg.confidenceValue = 9990000 /\ last.arg.reliability = "Suspicious"

\* C14: aiProbability is ai_probability x 100 when present (0 included),
\* whatever is_ai; else confidence x 100 when is_ai, (1 - confidence) x 100
\* when not; realProbability is real_probability x 100 when present, else
\* 100 - aiProbability.
C14_FallbackOrder ==
    last.op = "Result" =>
        LET r == result[1]
            ai == last.arg.aiProbability
            real == last.arg.realProbability
        IN  /\ r.ai_probability # Null => ai = r.ai_probability[1] * 100
            /\ (r.ai_probability = Null /\ r.is_ai = <<TRUE>>) => ai = r.confidence[1] * 100
            /\ (r.ai_probability = Null /\ r.is_ai = <<FALSE>>) =>
                   ai = (100000 - r.confidence[1]) * 100
            /\ r.real_probability # Null => real = r.real_probability[1] * 100
            /\ r.real_probability = Null => real = 10000000 - ai

C14_Witness ==
    /\ last.op = "Result"
    /\ result[1].ai_probability = <<0>> /\ result[1].is_ai = <<TRUE>>
    /\ result[1].confidence = <<97000>> /\ result[1].real_probability = Null
    /\ last.arg.aiProbability = 0 /\ last.arg.realProbability = 10000000

\* C15: a held result is the response to a request built from the held file;
\* right after a selection or a reset no result is held.
C15_ResultBelongsToFile ==
    /\ result # Null =>
          /\ file # Null
          /\ last.op = "fulfilled"
          /\ file = Some(last.arg.req.file)
          /\ result = Some(last.arg.data)
    /\ last.op \in {"handleFileSelect", "handleReset"} => result = Null

C15_Witness ==
    /\ result # Null /\ last.op = "fulfilled" /\ urls = 2
    /\ file = Some(last.arg.req.file)

\* C16: a rejected call changes only error and loading: file, preview and
\* result keep their values, the held file is the one the request carried,
\* and the next submission sends that file again.
C16_FailureKeepsSelection ==
    [][/\ last'.op = "rejected" =>
            /\ UNCHANGED <<file, preview, result, calls, urls>>
            /\ file' = Some(last'.arg.req.file)
            /\ error' # Null /\ loading' = FALSE
       /\ (last.op = "rejected" /\ last'.op = "handleAnalyze") =>
            /\ \E req \in inFlight' \ inFlight : req.file = last.arg.req.file
            /\ UNCHANGED <<file, preview>>]_vars

C16_Witness == last.op = "handleAnalyze" /\ loading /\ calls = 2 /\ urls = 1

\* C17: a call is issued only by a handleAnalyze step, exactly one per step;
\* a rejected call issues none.
C17_NoAutomaticRetry ==
    [][/\ (calls' # calls \/ inFlight' \ inFlight # {}) =>
            /\ last'.op = "handleAnalyze"
            /\ calls' = calls + 1
            /\ Cardinality(inFlight' \ inFlight) = 1
       /\ last'.op = "rejected" => (calls' = calls /\ inFlight' \subseteq inFlight)]_vars

C17_Witness == last.op = "rejected" /\ calls = 1 /\ inFlight = {} /\ ~loading
====
